---- MODULE Spec2Model ----
(***************************************************************************)
(* Model of the upnest2 growth-percentile backend: the percentile          *)
(* calculator (percentiles_service_layer.py), the synchronous PATCH        *)
(* recompute of baby_service.py, the Babies stream projector               *)
(* (baby_stream_processor.py), the internal per-record recompute of        *)
(* growth_data_service.py and the GrowthData stream handler                *)
(* (percentiles/stream_processor.py).                                      *)
(*                                                                         *)
(* Conventions.  Python None is the integer NoneV.  Dates are day numbers. *)
(* A dict of measurements or percentiles is a function whose domain is a   *)
(* subset of NUMERIC_KEYS.  Percentiles are hundredths of a percent        *)
(* (round(p, 2) * 100), NaN is the integer NaN.  A DynamoDB attribute that *)
(* may be absent is a pair (hasX, X).  uuid4() draws an unused element of  *)
(* DataIds.  updatedAt is the logical write clock of the item (rev).       *)
(***************************************************************************)
EXTENDS Integers, Naturals, Sequences, FiniteSets, TLC

NoneV == 0 - 1

NaN == 0 - 2

NUMERIC_KEYS == {"weight", "height", "headCircumference"}

EmptyMap == [k \in {} |-> 0]

(***************************************************************************)
(* Percentile calculator                                                   *)
(***************************************************************************)

\* Days present in the (illustrative) reference tables.
TableDays == {0, 2}

\* One reference row: L, M (grams or centimetres) and S in thousandths.
LmsRow(measurement_type, sex, day) ==
    LET base == CASE measurement_type = "weight" -> 3300
                  [] measurement_type = "height" -> 50
                  [] OTHER -> 35
        sexOff == IF sex = "male" THEN 0
                  ELSE IF measurement_type = "weight" THEN 0 - 100 ELSE 0 - 1
        dayOff == IF measurement_type = "weight" THEN 50 * day ELSE day
        s == CASE measurement_type = "weight" -> 140
               [] measurement_type = "height" -> 40
               [] OTHER -> 37
    IN  [L |-> IF measurement_type = "headCircumference" THEN 0 ELSE 1,
         M |-> base + sexOff + dayOff,
         S |-> s]

Abs(x) == IF x < 0 THEN 0 - x ELSE x

\* min(index.keys(), key=lambda d: abs(d - age)): the first key, in table
\* order (ascending day), among those at minimal distance.
NearestDay(age_in_days) ==
    LET best == CHOOSE d \in TableDays :
                    \A e \in TableDays : Abs(d - age_in_days) <= Abs(e - age_in_days)
        dist == Abs(best - age_in_days)
        cands == {d \in TableDays : Abs(d - age_in_days) = dist}
    IN  CHOOSE d \in cands : \A e \in cands : d <= e

get_lms(measurement_type, sex, age_in_days) ==
    IF age_in_days \in TableDays
    THEN LmsRow(measurement_type, sex, age_in_days)
    ELSE LmsRow(measurement_type, sex, NearestDay(age_in_days))

\* Integer division rounding to nearest (sign-symmetric).
RoundDiv(a, b) ==
    IF a >= 0 THEN (2 * a + b) \div (2 * b)
    ELSE 0 - ((2 * (0 - a) + b) \div (2 * b))

\* z-score in hundredths, or NaN.  value and M share the unit (grams: the
\* code divides both the value and the table's kilograms by 1000).
\* L = 0: ln(v/M)/S with ln(x) ~ 2(x-1)/(x+1); L = 1: ((v/M) - 1)/S.
lms_zscore(value, L, M, S) ==
    IF value <= 0 \/ M <= 0 \/ S <= 0 THEN NaN
    ELSE IF L = 0
         THEN RoundDiv(2 * (value - M) * 1000 * 100, (value + M) * S)
         ELSE RoundDiv((value - M) * 1000 * 100, M * S)

\* Standard normal CDF * 100 at z = k/2, in hundredths of a percent.
PhiTable ==
    << 0, 2, 13, 62, 228, 668, 1587, 3085, 5000,
       6915, 8413, 9332, 9772, 9938, 9987, 9998, 10000 >>

\* A percentile read off the tangent of the normal CDF at z = 0.
zscore_to_percentile_linear(z) ==
    IF z = NaN THEN NaN ELSE 5000 + 40 * z

\* _phi(z) * 100 rounded to 2 decimals: linear interpolation of PhiTable
\* between half-integer z, 0 below -4 and 100 above 4.
zscore_to_percentile(z) ==
    IF z = NaN THEN NaN
    ELSE IF z <= 0 - 400 THEN 0
    ELSE IF z >= 400 THEN 10000
    ELSE LET k == (z + 400) \div 50
             r == (z + 400) % 50
             lo == PhiTable[k + 1]
             hi == PhiTable[k + 2]
         IN  lo + RoundDiv((hi - lo) * r, 50)

\* _calc_age_in_days: NoneV stands for the ValueError "before birth date".
calc_age_in_days(birth_date, measurement_date) ==
    IF measurement_date < birth_date THEN NoneV
    ELSE measurement_date - birth_date

\* compute_percentile: [ok, err, percentile]; ok = FALSE is a raised error.
compute_percentile(measurement_type, sex, value, birth_date, measurement_date) ==
    IF measurement_type \notin NUMERIC_KEYS
    THEN [ok |-> FALSE, err |-> "measurementType", percentile |-> NoneV]
    ELSE IF sex \notin {"male", "female"}
    THEN [ok |-> FALSE, err |-> "sex", percentile |-> NoneV]
    ELSE IF value <= 0
    THEN [ok |-> FALSE, err |-> "Measurement value must be positive",
          percentile |-> NoneV]
    ELSE IF calc_age_in_days(birth_date, measurement_date) = NoneV
    THEN [ok |-> FALSE, err |-> "Measurement date cannot be before birth date",
          percentile |-> NoneV]
    ELSE CHOOSE result \in
            { [ok |-> TRUE, err |-> "",
               percentile |-> zscore_to_percentile(z)] :
              z \in { lms_zscore(value, row.L, row.M, row.S) :
                      row \in { get_lms(measurement_type, sex,
                                        calc_age_in_days(birth_date,
                                                         measurement_date)) } } } :
            TRUE

\* compute_percentiles(baby, measurement_date, measurements) for a baby with
\* gender and dateOfBirth: every per-metric error is swallowed, the metric
\* is left out.
compute_percentiles(gender, dateOfBirth, measurement_date, measurements) ==
    LET good == {k \in DOMAIN measurements :
                    /\ measurements[k] # NoneV
                    /\ k \in NUMERIC_KEYS
                    /\ compute_percentile(k, gender, measurements[k],
                                          dateOfBirth, measurement_date).ok}
    IN  [k \in good |-> compute_percentile(k, gender, measurements[k],
                                           dateOfBirth, measurement_date).percentile]

(***************************************************************************)
(* Bounds and inputs                                                       *)
(***************************************************************************)

\* Manual growth records that exist at the start (dataId 1..NumManual).
NumManual == 1

\* HTTP PATCH /babies/{id} requests served during a run.
MaxPatch == 2

\* Duplicate deliveries of a Babies stream record (at-least-once).
MaxRedeliver == 1

\* Most items one index query page returns (the 1 MB page of DynamoDB).
PageSize == 2

PageSizes == 1..PageSize

\* Writes of one growth record during a run (its updatedAt clock).
MaxStamp == 12

\* Growth records of the subject when only the invalidation is run.
MaxRecords == 27

\* Items per TransactWriteItems call in _remove_percentiles_for_baby.
TxnCeiling == 25

NoId == 0

\* uuid4() never runs out: one id per delivered record that carries no
\* birthDataId, beyond the initial records.
MaxId == NumManual + 1 + MaxPatch + MaxRedeliver

DataIds == 1..MaxId

Procs == 1..MaxPatch

BabyId == "b1"

InitialDob == 2

UPDATABLE_FIELDS ==
    {"name", "dateOfBirth", "gender", "premature", "gestationalWeek",
     "birthWeight", "birthHeight", "headCircumference"}

\* A request body of PATCH: the keys sent, and the value of each key sent.
Body(keys, name, gender, dob, weight) ==
    [keys |-> keys, name |-> name, gender |-> gender, dateOfBirth |-> dob,
     premature |-> FALSE, gestationalWeek |-> NoneV,
     birthWeight |-> weight, birthHeight |-> NoneV,
     headCircumference |-> NoneV]

PatchBodies ==
    { Body({"name"}, "n2", "male", InitialDob, NoneV),
      Body({"gender"}, "n1", "female", InitialDob, NoneV),
      Body({"dateOfBirth"}, "n1", "male", 3, NoneV),
      Body({"dateOfBirth"}, "n1", "male", 5, NoneV),
      Body({"birthWeight"}, "n1", "male", InitialDob, 3500),
      Body({"birthWeight"}, "n1", "male", InitialDob, NoneV) }

(***************************************************************************)
(* State                                                                   *)
(***************************************************************************)

VARIABLES
    babies,        \* Babies table: the item of BabyId
    growth,        \* GrowthData table: dataId -> item (exists = FALSE: no item)
    nextId,        \* next value uuid4() returns
    babyStream,    \* Babies stream: records [old, new] not yet delivered
    growthStream,  \* GrowthData stream: records not yet delivered
    redelivered,   \* duplicate deliveries so far
    invocations,   \* pending asynchronous invocations {dataId} of growth_data
    recalc,        \* internal recomputes between their reads and their write
    patch,         \* PATCH requests: proc -> local state of lambda_handler
    proj,          \* handle_stream_event: local state of the running call
    tables,        \* reference tables packaged with the layer: metric -> rows
    INDEX_BY_DAY_CACHE,  \* _INDEX_BY_DAY_CACHE: (type, sex) -> loaded index
    calcCall       \* last direct call of the calculator and what it returned

calcVars == << tables, INDEX_BY_DAY_CACHE, calcCall >>

vars ==
    << babies, growth, nextId, babyStream, growthStream, redelivered,
       invocations, recalc, patch, proj, calcVars >>

(***************************************************************************)
(* The calculator called directly, with its in-memory table cache          *)
(***************************************************************************)

\* Rows a packaged table can hold for a metric: the reference rows, or rows
\* whose S is 0, or whose M is 0.
RowKinds == {"who", "S0", "M0"}

WhoTables == [k \in NUMERIC_KEYS |-> "who"]

\* Tables the layer may be packaged with when degenerate rows are studied.
CalcTables ==
    {WhoTables,
     [WhoTables EXCEPT !["weight"] = "S0"],
     [WhoTables EXCEPT !["headCircumference"] = "M0"]}

TableRow(kind, measurement_type, sex, day) ==
    LET row == LmsRow(measurement_type, sex, day)
    IN  CASE kind = "S0" -> [row EXCEPT !.S = 0]
          [] kind = "M0" -> [row EXCEPT !.M = 0]
          [] OTHER -> row

NoRow == [L |-> 0, M |-> 0, S |-> 0]

NoCache == [k \in {} |-> "who"]

\* _index_by_day: the cache after the call; a missing key is loaded from the
\* packaged file, a present key is returned as cached.
index_by_day(cache, files, measurement_type, sex) ==
    LET key == << measurement_type, sex >>
    IN  IF key \in DOMAIN cache THEN cache
        ELSE [k \in DOMAIN cache \cup {key} |->
                 IF k = key THEN files[measurement_type] ELSE cache[k]]

\* get_lms on an index: the row of the exact day, else of the nearest day.
get_lms_row(kind, measurement_type, sex, age_in_days) ==
    IF age_in_days \in TableDays
    THEN TableRow(kind, measurement_type, sex, age_in_days)
    ELSE TableRow(kind, measurement_type, sex, NearestDay(age_in_days))

CalcError(message, cache) ==
    [ok |-> FALSE, err |-> message, percentile |-> NoneV, zscore |-> NoneV,
     LMS |-> NoRow, cache |-> cache]

\* compute_percentile with the cache it reads and fills: the returned dict
\* (percentile, zscore, LMS) or the raised ValueError, and the cache after.
compute_percentile_cached(cache, files, measurement_type, sex, value, birth_date, measurement_date) ==
    IF measurement_type \notin NUMERIC_KEYS
    THEN CalcError("measurementType", cache)
    ELSE IF sex \notin {"male", "female"}
    THEN CalcError("sex", cache)
    ELSE IF value <= 0
    THEN CalcError("Measurement value must be positive", cache)
    ELSE IF calc_age_in_days(birth_date, measurement_date) = NoneV
    THEN CalcError("Measurement date cannot be before birth date", cache)
    ELSE LET index == index_by_day(cache, files, measurement_type, sex)
             row == get_lms_row(index[<< measurement_type, sex >>],
                                measurement_type, sex,
                                calc_age_in_days(birth_date, measurement_date))
             z == lms_zscore(value, row.L, row.M, row.S)
         IN  [ok |-> TRUE, err |-> "",
              percentile |-> zscore_to_percentile(z), zscore |-> z,
              LMS |-> row, cache |-> index]

\* compute_percentiles with the cache: gender "" is a baby without gender.
\* Every exception of a metric is caught and logged; the metric is left out.
\* A percentile that is not None is kept, NaN included.
compute_percentiles_cached(cache, files, gender, dateOfBirth, measurement_date, measurements) ==
    IF gender = ""
    THEN [ok |-> FALSE, err |-> "baby must include 'gender' and 'dateOfBirth'",
          result |-> EmptyMap, cache |-> cache]
    ELSE LET tried == {k \in DOMAIN measurements :
                          measurements[k] # NoneV /\ k \in NUMERIC_KEYS}
             one(k) == compute_percentile_cached(cache, files, k, gender,
                                                 measurements[k], dateOfBirth,
                                                 measurement_date)
             good == {k \in tried : one(k).ok}
             loaded == {<< k, gender >> : k \in good}
         IN  [ok |-> TRUE, err |-> "",
              result |-> [k \in good |-> one(k).percentile],
              cache |-> [key \in DOMAIN cache \cup loaded |->
                            IF key \in DOMAIN cache THEN cache[key]
                            ELSE files[key[1]]]]

\* Inputs of the direct calls.
CalcTypes == {"weight", "headCircumference", "bmi"}

CalcSexes == {"male", "female", ""}

CalcValues == {0, 40, 3300}

MaxCalcDay == 2

CalcDays == 0..MaxCalcDay

CalcMeasurements ==
    {[k \in {"weight", "headCircumference"} |->
         IF k = "weight" THEN 3300 ELSE 40],
     [k \in {"weight", "headCircumference"} |->
         IF k = "weight" THEN 0 ELSE 40],
     [k \in {"weight"} |-> 40]}

NoCall ==
    [op |-> "none", measurement_type |-> "", sex |-> "", value |-> NoneV,
     birth_date |-> 0, measurement_date |-> 0, measurements |-> EmptyMap,
     ok |-> TRUE, err |-> "", percentile |-> NoneV, zscore |-> NoneV,
     LMS |-> NoRow, result |-> EmptyMap, hit |-> FALSE]

CalcIdle ==
    /\ tables = WhoTables
    /\ INDEX_BY_DAY_CACHE = NoCache
    /\ calcCall = NoCall

\* One call compute_percentile(measurement_type, sex, value, birth_date,
\* measurement_date); hit: the table of (type, sex) was already cached.
CalcSingle ==
    \E measurement_type \in CalcTypes, sex \in CalcSexes, value \in CalcValues,
       birth_date \in CalcDays, measurement_date \in CalcDays :
        \E r \in {compute_percentile_cached(INDEX_BY_DAY_CACHE, tables,
                                            measurement_type, sex, value,
                                            birth_date, measurement_date)} :
            /\ calcCall' = [NoCall EXCEPT
                            !.op = "single",
                            !.measurement_type = measurement_type,
                            !.sex = sex, !.value = value,
                            !.birth_date = birth_date,
                            !.measurement_date = measurement_date,
                            !.ok = r.ok, !.err = r.err,
                            !.percentile = r.percentile,
                            !.zscore = r.zscore, !.LMS = r.LMS,
                            !.hit = (<< measurement_type, sex >>
                                        \in DOMAIN INDEX_BY_DAY_CACHE)]
            /\ INDEX_BY_DAY_CACHE' = r.cache
            /\ UNCHANGED << babies, growth, nextId, babyStream, growthStream,
                            redelivered, invocations, recalc, patch, proj,
                            tables >>

\* One call compute_percentiles(baby, measurement_date, measurements).
CalcMulti ==
    \E gender \in CalcSexes, dateOfBirth \in CalcDays,
       measurement_date \in CalcDays, measurements \in CalcMeasurements :
        \E r \in {compute_percentiles_cached(INDEX_BY_DAY_CACHE, tables, gender,
                                             dateOfBirth, measurement_date,
                                             measurements)} :
            /\ calcCall' = [NoCall EXCEPT
                            !.op = "multi", !.sex = gender,
                            !.birth_date = dateOfBirth,
                            !.measurement_date = measurement_date,
                            !.measurements = measurements,
                            !.ok = r.ok, !.err = r.err, !.result = r.result]
            /\ INDEX_BY_DAY_CACHE' = r.cache
            /\ UNCHANGED << babies, growth, nextId, babyStream, growthStream,
                            redelivered, invocations, recalc, patch, proj,
                            tables >>

NoItem ==
    [exists |-> FALSE, babyId |-> "", measurementDate |-> NoneV,
     measurements |-> EmptyMap, hasPct |-> FALSE, percentiles |-> EmptyMap,
     measurementSource |-> "", updatedAt |-> 0]

\* An item UpdateItem creates when the key does not exist: the key and the
\* attributes the expression sets.
KeyOnlyItem == [NoItem EXCEPT !.exists = TRUE]

(***************************************************************************)
(* Babies and GrowthData items                                             *)
(***************************************************************************)

InitBaby(withBirth) ==
    [name |-> "n1", gender |-> "male", dateOfBirth |-> InitialDob,
     premature |-> FALSE, gestationalWeek |-> 40,
     birthWeight |-> IF withBirth THEN 3200 ELSE NoneV,
     birthHeight |-> NoneV, headCircumference |-> NoneV,
     birthDataId |-> IF withBirth THEN NumManual + 1 ELSE NoId,
     hasBP |-> FALSE, birthPercentiles |-> EmptyMap]

\* The item create_growth_data stores: percentiles computed at creation.
ManualItem(i) ==
    LET m == [k \in {"weight"} |-> 3500 + 100 * i]
    IN  [exists |-> TRUE, babyId |-> BabyId, measurementDate |-> InitialDob + 1 + i,
         measurements |-> m, hasPct |-> TRUE,
         percentiles |-> compute_percentiles("male", InitialDob, InitialDob + 1 + i, m),
         measurementSource |-> "", updatedAt |-> 1]

\* _extract_birth_measurements followed by _normalize_numeric_fields.
extract_birth_measurements(baby) ==
    LET cand == [k \in NUMERIC_KEYS |->
                    CASE k = "weight" -> baby.birthWeight
                      [] k = "height" -> baby.birthHeight
                      [] OTHER -> baby.headCircumference]
    IN  [k \in {x \in NUMERIC_KEYS : cand[x] # NoneV} |-> cand[k]]

has_any_value(measurements) ==
    \E k \in DOMAIN measurements : measurements[k] # NoneV /\ measurements[k] > 0

\* An item put together with the percentiles of its measurements.
BirthItemWithPercentiles(baby, normalized, stamp) ==
    [exists |-> TRUE, babyId |-> BabyId, measurementDate |-> baby.dateOfBirth,
     measurements |-> normalized, hasPct |-> TRUE,
     percentiles |-> compute_percentiles(baby.gender, baby.dateOfBirth,
                                         baby.dateOfBirth, normalized),
     measurementSource |-> "birth", updatedAt |-> stamp]

\* The item _upsert_birth_growth_item puts: no percentiles attribute.
BirthItem(baby, normalized, stamp) ==
    [exists |-> TRUE, babyId |-> BabyId, measurementDate |-> baby.dateOfBirth,
     measurements |-> normalized, hasPct |-> FALSE, percentiles |-> EmptyMap,
     measurementSource |-> "birth", updatedAt |-> stamp]

(***************************************************************************)
(* PATCH /babies/{id}: request normalisation and change classification     *)
(***************************************************************************)

\* normalize_baby_data: "error" is the ValueError answered with 400.
normalize_baby_data(body) ==
    LET sent(k) == k \in body.keys
        premature == sent("premature") /\ body.premature
        gw == IF sent("gestationalWeek") THEN body.gestationalWeek ELSE NoneV
    IN  IF ~premature
        THEN [ok |-> TRUE,
              data |-> [body EXCEPT !.keys = @ \cup {"gestationalWeek", "premature"},
                                    !.gestationalWeek = 40, !.premature = FALSE]]
        ELSE IF gw # NoneV /\ gw >= 38
        THEN [ok |-> TRUE,
              data |-> [body EXCEPT !.keys = @ \cup {"gestationalWeek", "premature"},
                                    !.gestationalWeek = 40, !.premature = FALSE]]
        ELSE IF gw = NoneV \/ ~(20 <= gw /\ gw <= 37)
        THEN [ok |-> FALSE, data |-> body]
        ELSE [ok |-> TRUE,
              data |-> [body EXCEPT !.keys = @ \cup {"gestationalWeek"},
                                    !.gestationalWeek = gw]]

\* update_fields / changed_keys of the PATCH branch.
changed_keys(data) == data.keys \cap UPDATABLE_FIELDS

structural_fields == {"dateOfBirth", "gender"}

birth_measure_fields == {"birthWeight", "birthHeight", "headCircumference"}

trigger_full(keys) == (keys \cap structural_fields) # {}

trigger_birth_only(keys) ==
    (~trigger_full(keys)) /\ (keys \cap birth_measure_fields) # {}

\* A classification that looks at the birth measurements first.
RecalcModeBirthFirst(sync, keys) ==
    IF ~sync THEN "none"
    ELSE IF (keys \cap birth_measure_fields) # {} THEN "birth-only"
    ELSE IF trigger_full(keys) THEN "full"
    ELSE "none"

\* The mode the PATCH answers with.
RecalcMode(sync, keys) ==
    IF ~sync THEN "none"
    ELSE IF trigger_full(keys) THEN "full"
    ELSE IF trigger_birth_only(keys) THEN "birth-only"
    ELSE "none"

\* An update that also drops the stored birth percentiles.
ApplyUpdateDropPercentiles(baby, data) ==
    [baby EXCEPT !.name = data.name, !.hasBP = TRUE,
                 !.birthPercentiles = EmptyMap]

\* table.update_item(SET k = :k for k in update_fields), ReturnValues ALL_NEW.
ApplyUpdate(baby, data) ==
    LET set(k, old, new) == IF k \in changed_keys(data) THEN new ELSE old
    IN  [baby EXCEPT
            !.name = set("name", @, data.name),
            !.gender = set("gender", @, data.gender),
            !.dateOfBirth = set("dateOfBirth", @, data.dateOfBirth),
            !.premature = set("premature", @, data.premature),
            !.gestationalWeek = set("gestationalWeek", @, data.gestationalWeek),
            !.birthWeight = set("birthWeight", @, data.birthWeight),
            !.birthHeight = set("birthHeight", @, data.birthHeight),
            !.headCircumference = set("headCircumference", @, data.headCircumference)]

(***************************************************************************)
(* Record store: index query, item writes and the change records they emit *)
(***************************************************************************)

\* BabyGrowthDataIndex order: measurementDate, then dataId.
IndexBefore(g, a, b) ==
    \/ g[a].measurementDate < g[b].measurementDate
    \/ g[a].measurementDate = g[b].measurementDate /\ a < b

\* Position of an exclusive start key [date, id] before item a.
KeyBefore(g, key, a) ==
    \/ key.date < g[a].measurementDate
    \/ key.date = g[a].measurementDate /\ key.id < a

NoKey == [date |-> NoneV, id |-> NoId]

RECURSIVE SortIds(_, _)
SortIds(g, ids) ==
    IF ids = {} THEN << >>
    ELSE LET first == CHOOSE a \in ids : \A b \in ids \ {a} : IndexBefore(g, a, b)
         IN  << first >> \o SortIds(g, ids \ {first})

Take(seq, n) == SubSeq(seq, 1, IF Len(seq) < n THEN Len(seq) ELSE n)

\* A query whose LastEvaluatedKey is never followed.
QueryFirstPage(g, start, n) ==
    LET ids == {d \in DOMAIN g : g[d].exists /\ g[d].babyId = BabyId}
    IN  [Items |-> Take(SortIds(g, ids), n), LastEvaluatedKey |-> NoKey]

\* growth_table.query(IndexName='BabyGrowthDataIndex', babyId = baby_id
\* [, ExclusiveStartKey]): one page and its LastEvaluatedKey.  The page ends
\* after n items (where the 1 MB limit of a page falls).
QueryPage(g, start, n) ==
    LET ids == {d \in DOMAIN g : /\ g[d].exists
                                /\ g[d].babyId = BabyId
                                /\ KeyBefore(g, start, d)}
        all == SortIds(g, ids)
        page == Take(all, n)
    IN  [Items |-> page,
         LastEvaluatedKey |->
            IF Len(all) > n
            THEN [date |-> g[page[Len(page)]].measurementDate, id |-> page[Len(page)]]
            ELSE NoKey]

\* A GrowthData stream record for a write that changed the item.
GrowthRecord(d, old, new) ==
    [eventName |-> IF ~new.exists THEN "REMOVE"
                   ELSE IF old.exists THEN "MODIFY" ELSE "INSERT",
     dataId |-> d, old |-> old, new |-> new]

\* The stream records of one write (or transaction) taking g to h.
RECURSIVE GrowthRecords(_, _, _)
GrowthRecords(g, h, ids) ==
    IF ids = {} THEN << >>
    ELSE LET d == CHOOSE x \in ids : \A y \in ids : x <= y
         IN  (IF g[d] = h[d] THEN << >> ELSE << GrowthRecord(d, g[d], h[d]) >>)
             \o GrowthRecords(g, h, ids \ {d})

BabyRecords(old, new, always) ==
    IF always \/ old # new
    THEN << [old |-> old, new |-> new, seen |-> FALSE] >>
    ELSE << >>

\* Item d, or the key-only item UpdateItem starts from when d is missing.
Upsertable(g, d) == IF g[d].exists THEN g[d] ELSE KeyOnlyItem

\* update_item(SET percentiles = :p, updatedAt = :u)
SetPercentiles(g, d, pct) ==
    [g EXCEPT ![d] = [Upsertable(g, d) EXCEPT !.hasPct = TRUE,
                                              !.percentiles = pct,
                                              !.updatedAt = @ + 1]]

\* update_item(SET measurementDate = :d, updatedAt = :u)
SetMeasurementDate(g, d, date) ==
    [g EXCEPT ![d] = [Upsertable(g, d) EXCEPT !.measurementDate = date,
                                              !.updatedAt = @ + 1]]

\* Update "REMOVE percentiles" on each id of a chunk.
RemovePercentiles(g, ids) ==
    [d \in DOMAIN g |->
        IF d \in ids
        THEN [Upsertable(g, d) EXCEPT !.hasPct = FALSE, !.percentiles = EmptyMap]
        ELSE g[d]]

\* Decimal('NaN') cannot be serialised: the write raises.
Storable(pct) == \A k \in DOMAIN pct : pct[k] # NaN

(***************************************************************************)
(* Initial state                                                           *)
(***************************************************************************)

\* Locals of one PATCH invocation.  persisted, failed, skipped: the dataIds
\* whose percentiles were stored, whose update_item raised, that had no
\* percentiles to store; fetches: consistent re-reads; used_date: the date
\* the birth record was computed at; align_failed, bp_failed: the write of
\* the aligned date, of birthPercentiles, raised.
IdlePatch ==
    [pc |-> "idle", keys |-> {}, sync |-> FALSE, mode |-> "", status |-> 0,
     baby |-> InitBaby(FALSE), items |-> << >>, i |-> 0, aligned |-> FALSE,
     updated_count |-> 0, total |-> 0,
     persisted |-> {}, failed |-> {}, skipped |-> {}, fetches |-> 0,
     used_date |-> NoneV, align_failed |-> FALSE, bp_failed |-> FALSE,
     resp |-> [measurements |-> NoneV, hasBirthPercentiles |-> FALSE,
               birthPercentiles |-> EmptyMap, synthetic |-> FALSE,
               recalcSkipped |-> FALSE]]

IdleProj ==
    [pc |-> "idle", old |-> InitBaby(FALSE), new |-> InitBaby(FALSE),
     again |-> FALSE, cascade |-> FALSE, members |-> {}, cleared |-> {},
     last_key |-> NoKey, items |-> << >>, ci |-> 0, pages |-> 0, txns |-> 0,
     failed |-> FALSE]

InitGrowth(withBirth) ==
    [d \in DataIds |->
        IF d <= NumManual THEN ManualItem(d)
        ELSE IF withBirth /\ d = NumManual + 1
        THEN BirthItem(InitBaby(TRUE), extract_birth_measurements(InitBaby(TRUE)), 1)
        ELSE NoItem]

Init ==
    \E withBirth \in BOOLEAN :
        /\ babies = InitBaby(withBirth)
        /\ growth = InitGrowth(withBirth)
        /\ nextId = NumManual + (IF withBirth THEN 2 ELSE 1)
        /\ babyStream = << >>
        /\ growthStream = << >>
        /\ redelivered = 0
        /\ invocations = {}
        /\ recalc = {}
        /\ patch = [p \in Procs |-> IdlePatch]
        /\ proj = IdleProj
        /\ CalcIdle

(***************************************************************************)
(* baby_service.lambda_handler, PATCH /babies/{id}                         *)
(***************************************************************************)

\* What the body of a response carries beyond baby and mode: the number of
\* items under "measurements" (NoneV: no such field), the "birthPercentiles"
\* field, the synthetic mark of the returned birth record, "recalcSkipped".
NoResponse ==
    [measurements |-> NoneV, hasBirthPercentiles |-> FALSE,
     birthPercentiles |-> EmptyMap, synthetic |-> FALSE,
     recalcSkipped |-> FALSE]

\* {"baby", "recalcSkipped": True, ...}
SkippedResponse == [NoResponse EXCEPT !.recalcSkipped = TRUE]

\* The FULL response: n items of the second query, baby.get('birthPercentiles').
FullResponse(baby, n) ==
    [NoResponse EXCEPT !.measurements = n, !.hasBirthPercentiles = TRUE,
                       !.birthPercentiles = IF baby.hasBP THEN baby.birthPercentiles
                                            ELSE EmptyMap]

\* A BIRTH ONLY response that leaves the record list out.
BirthOnlyResponseBare(baby, birth_measurement) ==
    [NoResponse EXCEPT !.hasBirthPercentiles = TRUE,
                       !.birthPercentiles = IF baby.hasBP THEN baby.birthPercentiles
                                            ELSE EmptyMap]

\* The BIRTH ONLY response: "measurements": [birth_measurement].
BirthOnlyResponse(baby, birth_measurement) ==
    [NoResponse EXCEPT !.measurements = 1, !.hasBirthPercentiles = TRUE,
                       !.birthPercentiles = IF baby.hasBP THEN baby.birthPercentiles
                                            ELSE EmptyMap,
                       !.synthetic = birth_measurement.synthetic]

\* The response is sent: only what the response carries is kept, and the
\* record of what the request wrote.
Finish(st, status, resp) ==
    [IdlePatch EXCEPT !.pc = "done", !.keys = st.keys, !.sync = st.sync,
                      !.mode = st.mode, !.status = status, !.resp = resp,
                      !.updated_count = st.updated_count, !.total = st.total,
                      !.persisted = st.persisted, !.failed = st.failed,
                      !.skipped = st.skipped, !.fetches = st.fetches,
                      !.align_failed = st.align_failed,
                      !.bp_failed = st.bp_failed]

\* Snapshot of the items a query returned.
Snapshot(g, ids) ==
    [n \in 1..Len(ids) |->
        [dataId |-> ids[n], measurementDate |-> g[ids[n]].measurementDate,
         measurements |-> g[ids[n]].measurements]]

\* Body parsing, the update of the Babies item and the choice of the mode.
PatchBegin(p, body, sync) ==
    /\ patch[p].pc = "idle"
    /\ \A q \in Procs : q < p => patch[q].pc # "idle"
    /\ LET norm == normalize_baby_data(body)
           keys == changed_keys(norm.data)
           new == ApplyUpdate(babies, norm.data)
           mode == RecalcMode(sync, keys)
           st == [patch[p] EXCEPT !.keys = keys, !.sync = sync, !.mode = mode,
                                  !.baby = new]
       IN  IF ~norm.ok
           THEN /\ patch' = [patch EXCEPT ![p] = Finish(patch[p], 400, NoResponse)]
                /\ UNCHANGED << babies, babyStream >>
           ELSE /\ babies' = new
                /\ babyStream' = babyStream \o BabyRecords(babies, new, TRUE)
                /\ patch' = [patch EXCEPT ![p] =
                       CASE mode = "full" -> [st EXCEPT !.pc = "full_query"]
                         [] mode = "birth-only" -> [st EXCEPT !.pc = "birth_only"]
                         [] OTHER -> Finish(st, 200, IF sync THEN SkippedResponse
                                                     ELSE NoResponse)]
    /\ UNCHANGED << calcVars, growth, nextId, growthStream, redelivered, invocations,
                    recalc, proj >>

\* FULL: the single index query (no ExclusiveStartKey loop).  A query that
\* raises is answered 500 by the handler's outer except.
PatchFullQuery(p, n, ok) ==
    /\ patch[p].pc = "full_query"
    /\ LET resp == QueryPage(growth, NoKey, n)
           items == Snapshot(growth, resp.Items)
       IN  patch' = [patch EXCEPT ![p] =
               IF ok
               THEN [@ EXCEPT !.items = items, !.i = 1, !.total = Len(items),
                              !.pc = IF Len(items) = 0 THEN "birth_pct"
                                     ELSE "full_item"]
               ELSE Finish(@, 500, NoResponse)]
    /\ UNCHANGED << calcVars, babies, growth, nextId, babyStream, growthStream,
                    redelivered, invocations, recalc, proj >>

\* A loop that never realigns the birth record.
NeedsAlignNever(st) == FALSE

NeedsAlign(st) ==
    LET item == st.items[st.i]
    IN  /\ ~st.aligned
        /\ item.dataId = st.baby.birthDataId
        /\ item.measurementDate # st.baby.dateOfBirth

\* FULL: the birth record's measurementDate is set to the date of birth.
\* A write that raises is logged; the loop goes on with the date of birth.
PatchFullAlign(p, ok) ==
    /\ patch[p].pc = "full_item"
    /\ NeedsAlign(patch[p])
    /\ LET st == patch[p]
           d == st.items[st.i].dataId
           g == IF ok THEN SetMeasurementDate(growth, d, st.baby.dateOfBirth)
                ELSE growth
       IN  /\ growth' = g
           /\ growthStream' = growthStream \o GrowthRecords(growth, g, {d})
           /\ patch' = [patch EXCEPT ![p] =
                  [st EXCEPT !.aligned = TRUE, !.align_failed = ~ok]]
    /\ UNCHANGED << calcVars, babies, nextId, babyStream, redelivered, invocations,
                    recalc, proj >>

\* The error compute_percentiles raises before its loop ("" when none).
compute_percentiles_error(gender, dateOfBirth) ==
    IF gender = "" \/ dateOfBirth = NoneV
    THEN "baby must include 'gender' and 'dateOfBirth'"
    ELSE ""

\* "before birth date" in str(err).lower()
mentions_before_birth(err) ==
    err = "Measurement date cannot be before birth date"

\* A counter that counts every item that had percentiles to store.
CountAttempted(count, attempted, stored) ==
    IF attempted THEN count + 1 ELSE count

\* updated_count += 1 after an update_item that did not raise.
CountUpdated(count, attempted, stored) ==
    IF stored THEN count + 1 ELSE count

\* A loop that is left when the update_item of an item raises.
NextItemPcAbort(last, raised) ==
    IF last \/ raised THEN "birth_pct" ELSE "full_item"

\* for item in items: where the loop goes after one item, whether or not
\* its update_item raised.
NextItemPc(last, raised) ==
    IF last THEN "birth_pct" ELSE "full_item"

\* FULL: percentiles of one item computed and stored (ok: the update_item
\* does not raise).
PatchFullItem(p, ok) ==
    /\ patch[p].pc = "full_item"
    /\ ~NeedsAlign(patch[p])
    /\ LET st == patch[p]
           item == st.items[st.i]
           d == item.dataId
           measurement_date == IF st.aligned THEN st.baby.dateOfBirth
                               ELSE item.measurementDate
           last == st.i = Len(st.items)
           err == compute_percentiles_error(st.baby.gender, st.baby.dateOfBirth)
           refetch == err # "" /\ mentions_before_birth(err)
           retry == /\ refetch /\ growth[d].exists
                    /\ growth[d].measurementDate # measurement_date
           date == IF retry THEN growth[d].measurementDate ELSE measurement_date
           meas == IF retry THEN growth[d].measurements ELSE item.measurements
       IN  \E pct \in {IF err # "" THEN EmptyMap
                       ELSE compute_percentiles(st.baby.gender, st.baby.dateOfBirth,
                                                date, meas)} :
           \E attempted \in {pct # EmptyMap} :
           \E stored \in {attempted /\ Storable(pct) /\ ok} :
           \E g \in {IF stored THEN SetPercentiles(growth, d, pct) ELSE growth} :
              /\ ~attempted => ok
              /\ growth' = g
              /\ growthStream' = growthStream \o GrowthRecords(growth, g, {d})
              /\ patch' = [patch EXCEPT ![p] =
                     [st EXCEPT !.i = @ + 1, !.aligned = FALSE,
                                !.used_date = IF d = st.baby.birthDataId
                                              THEN date ELSE @,
                                !.fetches = IF refetch THEN @ + 1 ELSE @,
                                !.updated_count = CountUpdated(@, attempted, stored),
                                !.persisted = IF stored THEN @ \cup {d} ELSE @,
                                !.failed = IF attempted /\ ~stored
                                           THEN @ \cup {d} ELSE @,
                                !.skipped = IF ~attempted THEN @ \cup {d} ELSE @,
                                !.pc = NextItemPc(last, attempted /\ ~stored)]]
    /\ UNCHANGED << calcVars, babies, nextId, babyStream, redelivered, invocations,
                    recalc, proj >>

\* _compute_birth_percentiles(baby_obj)
compute_birth_percentiles(baby) ==
    LET measures == extract_birth_measurements(baby)
    IN  IF measures = EmptyMap THEN EmptyMap
        ELSE compute_percentiles(baby.gender, baby.dateOfBirth,
                                 baby.dateOfBirth, measures)

\* _compute_birth_percentiles raises when compute_percentiles does.
compute_birth_percentiles_raises(baby) ==
    /\ extract_birth_measurements(baby) # EmptyMap
    /\ compute_percentiles_error(baby.gender, baby.dateOfBirth) # ""

\* update_item(SET birthPercentiles = :bp) on the Babies item.
SetBirthPercentiles(b, pct) ==
    [b EXCEPT !.hasBP = TRUE, !.birthPercentiles = pct]

\* FULL: birthPercentiles recomputed and stored on the baby.  An update_item
\* that raises is logged.
PatchBirthPct(p, ok) ==
    /\ patch[p].pc = "birth_pct"
    /\ \E birth_pct \in {compute_birth_percentiles(patch[p].baby)} :
          LET st == patch[p]
              attempted == birth_pct # EmptyMap
              stored == attempted /\ Storable(birth_pct) /\ ok
              b == IF stored THEN SetBirthPercentiles(babies, birth_pct) ELSE babies
          IN  /\ ~attempted => ok
              /\ babies' = b
              /\ babyStream' = babyStream \o BabyRecords(babies, b, FALSE)
              /\ patch' = [patch EXCEPT ![p] =
                     IF compute_birth_percentiles_raises(st.baby)
                     THEN Finish(st, 500, NoResponse)
                     ELSE [st EXCEPT
                              !.pc = "full_respond",
                              !.bp_failed = attempted /\ ~stored,
                              !.baby = IF stored
                                       THEN SetBirthPercentiles(@, birth_pct)
                                       ELSE @]]
    /\ UNCHANGED << calcVars, growth, nextId, growthStream, redelivered, invocations,
                    recalc, proj >>

\* FULL: the second query (one page of n items) and the response.
PatchFullRespond(p, n, ok) ==
    /\ patch[p].pc = "full_respond"
    /\ LET st == patch[p]
           page == QueryPage(growth, NoKey, n).Items
       IN  patch' = [patch EXCEPT ![p] =
               IF ok THEN Finish(st, 200, FullResponse(st.baby, Len(page)))
               ELSE Finish(st, 500, NoResponse)]
    /\ UNCHANGED << calcVars, babies, growth, nextId, babyStream, growthStream,
                    redelivered, invocations, recalc, proj >>

\* A persist of the birth percentiles that ignores the outcome of the write.
BirthOnlyStoreAnyway(b, birth_pct, ok) == SetBirthPercentiles(b, birth_pct)

\* A persist that also points the baby at the record of the response.
BirthOnlyStoreWithPointer(b, birth_pct, ok) ==
    [SetBirthPercentiles(b, birth_pct) EXCEPT !.birthDataId = NumManual + 1]

\* BIRTH ONLY: what table.update_item leaves of the Babies item.
BirthOnlyStore(b, birth_pct, ok) ==
    IF ok /\ Storable(birth_pct) THEN SetBirthPercentiles(b, birth_pct) ELSE b

\* A BIRTH ONLY path without the early return.
BirthOnlySkipsNever(birth_pct) == FALSE

\* if not birth_pct: the early return "No birth measurements".
BirthOnlySkips(birth_pct) == birth_pct = EmptyMap

\* BIRTH ONLY: birthPercentiles recomputed and stored on the baby.  An
\* update_item that raises is answered 500.
PatchBirthOnly(p, ok) ==
    /\ patch[p].pc = "birth_only"
    /\ \E birth_pct \in {compute_birth_percentiles(patch[p].baby)} :
          LET st == patch[p]
              b == BirthOnlyStore(babies, birth_pct, ok)
          IN  IF compute_birth_percentiles_raises(st.baby)
              THEN /\ ok
                   /\ patch' = [patch EXCEPT ![p] = Finish(st, 500, NoResponse)]
                   /\ UNCHANGED << babies, babyStream >>
              ELSE IF BirthOnlySkips(birth_pct)
              THEN /\ ok
                   /\ patch' = [patch EXCEPT ![p] = Finish(st, 200, SkippedResponse)]
                   /\ UNCHANGED << babies, babyStream >>
              ELSE IF ~(ok /\ Storable(birth_pct))
              THEN /\ babies' = b
                   /\ babyStream' = babyStream \o BabyRecords(babies, b, FALSE)
                   /\ patch' = [patch EXCEPT ![p] =
                          Finish([st EXCEPT !.bp_failed = TRUE], 500, NoResponse)]
              ELSE /\ babies' = b
                   /\ babyStream' = babyStream \o BabyRecords(babies, b, FALSE)
                   /\ patch' = [patch EXCEPT ![p] =
                          [st EXCEPT !.pc = "birth_only_fetch",
                                     !.baby = SetBirthPercentiles(@, birth_pct)]]
    /\ UNCHANGED << calcVars, growth, nextId, growthStream, redelivered, invocations,
                    recalc, proj >>

\* A response that never synthesises: whatever birthDataId names is returned
\* as the stored record.
BirthMeasurementStored(g, baby, ok) ==
    [synthetic |-> FALSE, dataId |-> baby.birthDataId]

\* BIRTH ONLY: the record synthesised from the baby the update returned
\* (birthPercentiles already merged in).  Its head circumference is read
\* from baby.get("birthCircumference"), an attribute no Babies item carries,
\* so it is None.
SyntheticBirthMeasurement(baby) ==
    [synthetic |-> TRUE, dataId |-> baby.birthDataId,
     measurements |-> [k \in NUMERIC_KEYS |->
                          CASE k = "weight" -> baby.birthWeight
                            [] k = "height" -> baby.birthHeight
                            [] OTHER -> NoneV],
     percentiles |-> baby.birthPercentiles]

\* BIRTH ONLY: the stored birth record when baby.birthDataId names an item
\* whose measurementDate is the date of birth and get_item does not raise,
\* else the record synthesised from the baby.
BirthMeasurement(g, baby, ok) ==
    LET birth_data_id == baby.birthDataId
        found == /\ birth_data_id # NoId /\ ok
                 /\ g[birth_data_id].exists
                 /\ g[birth_data_id].measurementDate = baby.dateOfBirth
    IN  IF found
        THEN [synthetic |-> FALSE, dataId |-> birth_data_id,
              measurements |-> g[birth_data_id].measurements,
              percentiles |-> baby.birthPercentiles]
        ELSE SyntheticBirthMeasurement(baby)

\* BIRTH ONLY: the stored birth record is read (or synthesised) and returned.
PatchBirthOnlyFetch(p, ok) ==
    /\ patch[p].pc = "birth_only_fetch"
    /\ patch[p].baby.birthDataId = NoId => ok
    /\ LET st == patch[p]
           birth_measurement == BirthMeasurement(growth, st.baby, ok)
       IN  patch' = [patch EXCEPT ![p] =
               Finish(st, 200, BirthOnlyResponse(st.baby, birth_measurement))]
    /\ UNCHANGED << calcVars, babies, growth, nextId, babyStream, growthStream,
                    redelivered, invocations, recalc, proj >>

(***************************************************************************)
(* baby_stream_processor.handle_stream_event                               *)
(***************************************************************************)

\* The growth records of the subject.
Members(g) == {d \in DOMAIN g : g[d].exists /\ g[d].babyId = BabyId}

\* A record of the Babies stream is delivered (dup: it stays in the stream
\* and will be delivered again).
ProjBegin(dup) ==
    /\ proj.pc = "idle"
    /\ babyStream # << >>
    /\ IF dup
       THEN /\ redelivered < MaxRedeliver
            /\ redelivered' = redelivered + 1
            /\ babyStream' = << [Head(babyStream) EXCEPT !.seen = TRUE] >>
                              \o Tail(babyStream)
       ELSE /\ babyStream' = Tail(babyStream)
            /\ UNCHANGED redelivered
    /\ LET rec == Head(babyStream)
           gender_changed == rec.old.gender # rec.new.gender
           dob_changed == rec.old.dateOfBirth # rec.new.dateOfBirth
       IN  proj' = [IdleProj EXCEPT
                       !.old = rec.old, !.new = rec.new, !.again = rec.seen,
                       !.cascade = gender_changed \/ dob_changed,
                       !.members = Members(growth),
                       !.pc = IF gender_changed \/ dob_changed
                              THEN "cascade_query" ELSE "birth"]
    /\ UNCHANGED << calcVars, babies, growth, nextId, growthStream, invocations,
                    recalc, patch >>

\* _remove_percentiles_for_baby: one page of the index query.
ProjCascadeQuery(n) ==
    /\ proj.pc = "cascade_query"
    /\ LET resp == QueryPage(growth, proj.last_key, n)
       IN  proj' = [proj EXCEPT
                       !.items = resp.Items, !.ci = 0, !.pages = @ + 1,
                       !.last_key = resp.LastEvaluatedKey,
                       !.pc = IF Len(resp.Items) > 0 THEN "cascade_chunk"
                              ELSE IF resp.LastEvaluatedKey = NoKey THEN "birth"
                              ELSE "cascade_query"]
    /\ UNCHANGED << calcVars, babies, growth, nextId, babyStream, growthStream,
                    redelivered, invocations, recalc, patch >>

\* A slice that stops one item early: items[i : i + 24].
ChunkShort(items, i) ==
    SubSeq(items, i + 1, IF Len(items) < i + TxnCeiling - 1 THEN Len(items)
                         ELSE i + TxnCeiling - 1)

\* The whole rest of the page as one slice: items[i:].
ChunkWholePage(items, i) == SubSeq(items, i + 1, Len(items))

\* items[i : i + 25] of the page.
Chunk(items, i) ==
    SubSeq(items, i + 1, IF Len(items) < i + TxnCeiling THEN Len(items)
                         ELSE i + TxnCeiling)

SeqRange(seq) == {seq[n] : n \in 1..Len(seq)}

\* Invocations made whatever the outcome of the transaction.
InvokedAnyway(ok, ids, dispatched) == dispatched \cap ids

\* The invocations of growth_data made for a chunk: after
\* transact_write_items returned, one per id, of which lambda_client.invoke
\* accepted those in dispatched; none when the transaction raised.
Invoked(ok, ids, dispatched) == IF ok THEN dispatched \cap ids ELSE {}

\* _remove_percentiles_for_baby: the transaction of one chunk, then the
\* asynchronous invocations (dispatched: those lambda_client.invoke accepted).
\* A failed transaction raises: the loop is left.
ProjCascadeChunk(ok, dispatched) ==
    /\ proj.pc = "cascade_chunk"
    /\ LET ids == SeqRange(Chunk(proj.items, proj.ci))
           g == RemovePercentiles(growth, ids)
           more == proj.ci + TxnCeiling < Len(proj.items)
       IN  IF ok
           THEN /\ dispatched \subseteq ids
                /\ growth' = g
                /\ growthStream' = growthStream \o GrowthRecords(growth, g, ids)
                /\ invocations' = invocations \cup Invoked(ok, ids, dispatched)
                /\ proj' = [proj EXCEPT
                               !.ci = @ + TxnCeiling, !.txns = @ + 1,
                               !.cleared = @ \cup ids,
                               !.pc = IF more THEN "cascade_chunk"
                                      ELSE IF proj.last_key = NoKey THEN "birth"
                                      ELSE "cascade_query"]
           ELSE /\ dispatched = ids
                /\ invocations' = invocations \cup Invoked(ok, ids, dispatched)
                /\ proj' = [proj EXCEPT !.failed = TRUE, !.txns = @ + 1,
                                        !.pc = "birth"]
                /\ UNCHANGED << growth, growthStream >>
    /\ UNCHANGED << calcVars, babies, nextId, babyStream, redelivered, recalc, patch >>

\* The Put of the birth item alone, outside a transaction.
UpsertPutOnly(g, b, birth_id, item) ==
    [growth |-> [g EXCEPT ![birth_id] = item], babies |-> b]

\* The transaction with SET birthDataId = :id in place of if_not_exists.
UpsertTxnOverwrite(g, b, birth_id, item) ==
    [growth |-> [g EXCEPT ![birth_id] = item],
     babies |-> [b EXCEPT !.birthDataId = birth_id]]

\* _upsert_birth_growth_item: Put of the birth item and
\* SET birthDataId = if_not_exists(birthDataId, :id), in one transaction.
UpsertTxn(g, b, birth_id, item) ==
    [growth |-> [g EXCEPT ![birth_id] = item],
     babies |-> IF b.birthDataId = NoId THEN [b EXCEPT !.birthDataId = birth_id]
                ELSE b]

\* _delete_birth_growth_item_and_pointer: Delete of the birth item and
\* REMOVE birthDataId, in one transaction.
DeleteTxn(g, b, birth_id) ==
    [growth |-> [g EXCEPT ![birth_id] = NoItem],
     babies |-> [b EXCEPT !.birthDataId = NoId]]

\* The transaction the rest of handle_stream_event issues for image new:
\* upsert, delete, or none ("skip").
BirthAction(new) ==
    IF new.dateOfBirth = NoneV THEN "skip"
    ELSE IF has_any_value(extract_birth_measurements(new)) THEN "upsert"
    ELSE IF new.birthDataId # NoId THEN "delete"
    ELSE "skip"

\* handle_stream_event after the invalidation: upsert or delete of the
\* canonical birth record (ok: the transaction commits).
ProjBirth(ok) ==
    /\ proj.pc = "birth"
    /\ LET new == proj.new
           act == BirthAction(new)
           fresh == new.birthDataId = NoId
           birth_id == IF fresh THEN nextId ELSE new.birthDataId
           item == BirthItem(new, extract_birth_measurements(new),
                             growth[birth_id].updatedAt + 1)
           res == CASE act = "upsert" /\ ok -> UpsertTxn(growth, babies, birth_id, item)
                    [] act = "delete" /\ ok -> DeleteTxn(growth, babies, birth_id)
                    [] OTHER -> [growth |-> growth, babies |-> babies]
       IN  /\ act = "upsert" /\ fresh => nextId \in DOMAIN growth
           /\ act = "skip" => ok
           /\ growth' = res.growth
           /\ babies' = res.babies
           /\ nextId' = IF act = "upsert" /\ fresh THEN nextId + 1 ELSE nextId
           /\ growthStream' = growthStream \o GrowthRecords(growth, res.growth, {birth_id})
           /\ babyStream' = babyStream \o BabyRecords(babies, res.babies, FALSE)
           /\ proj' = IdleProj
    /\ UNCHANGED << calcVars, redelivered, invocations, recalc, patch >>

(***************************************************************************)
(* growth_data_service: internal invocation {dataId}                       *)
(***************************************************************************)

\* The measurement date recompute_percentiles_for_growth_data_id uses.
RecalcDate(item, d, baby) ==
    IF (baby.birthDataId = d \/ item.measurementSource = "birth")
       /\ item.measurementDate # baby.dateOfBirth
    THEN baby.dateOfBirth
    ELSE item.measurementDate

\* recompute_percentiles_for_growth_data_id up to compute_percentiles: the
\* consistent reads of the item and of the baby.  A missing item or baby
\* raises ValueError (answered 404).
RecalcStart(d) ==
    /\ d \in invocations
    /\ invocations' = invocations \ {d}
    /\ LET item == growth[d]
           found == item.exists /\ item.babyId = BabyId
       IN  \E pct \in {compute_percentiles(babies.gender, babies.dateOfBirth,
                                           RecalcDate(item, d, babies),
                                           item.measurements)} :
              recalc' = IF found THEN recalc \cup {[dataId |-> d, pct |-> pct]}
                        ELSE recalc
    /\ UNCHANGED << calcVars, babies, growth, nextId, babyStream, growthStream,
                    redelivered, patch, proj >>

\* A put_item of the key and the new percentiles in place of the update.
RecalcStorePut(g, d, pct) ==
    [g EXCEPT ![d] = [KeyOnlyItem EXCEPT !.hasPct = TRUE, !.percentiles = pct,
                                         !.updatedAt = g[d].updatedAt + 1]]

\* recompute_percentiles_for_growth_data_id: the update_item.
RecalcStore(g, d, pct) ==
    IF Storable(pct) THEN SetPercentiles(g, d, pct) ELSE g

RecalcWrite(r) ==
    /\ r \in recalc
    /\ recalc' = recalc \ {r}
    /\ LET g == RecalcStore(growth, r.dataId, r.pct)
       IN  /\ growth' = g
           /\ growthStream' = growthStream \o GrowthRecords(growth, g, {r.dataId})
    /\ UNCHANGED << calcVars, babies, nextId, babyStream, redelivered, invocations,
                    patch, proj >>

(***************************************************************************)
(* percentiles/stream_processor.lambda_handler (GrowthData stream)         *)
(***************************************************************************)

\* _measurements_from: the three keys, None when missing.
measurements_from(item) ==
    [k \in NUMERIC_KEYS |->
        IF k \in DOMAIN item.measurements THEN item.measurements[k] ELSE NoneV]

measurements_changed(old_item, new_item) ==
    \E k \in NUMERIC_KEYS : measurements_from(old_item)[k] # measurements_from(new_item)[k]

\* _percentiles_equal(a, b): a stored, b new (a missing is None).
percentiles_equal(hasA, a, b) ==
    /\ hasA /\ a # EmptyMap /\ b # EmptyMap
    /\ \A k \in NUMERIC_KEYS :
          /\ k \in DOMAIN a /\ k \in DOMAIN b
          /\ a[k] = b[k]

\* _calc_percentiles: calculate_percentile(event) of percentiles_service is
\* called with two arguments, which raises TypeError at the first
\* positive value.
calc_percentiles(measurements) ==
    [raised |-> \E k \in NUMERIC_KEYS : measurements[k] # NoneV /\ measurements[k] > 0,
     percentiles |-> EmptyMap]

\* _update_item_if_needed
update_item_if_needed(g, d, new_percentiles) ==
    IF percentiles_equal(g[d].exists /\ g[d].hasPct, g[d].percentiles, new_percentiles)
    THEN g
    ELSE SetPercentiles(g, d, new_percentiles)

needs_calc(rec) ==
    \/ rec.eventName = "INSERT"
    \/ measurements_changed(rec.old, rec.new)
    \/ ~rec.new.hasPct

\* A handler without its guards: every INSERT or MODIFY is answered with a
\* write of the percentiles.
StreamStoreAlways(g, rec) ==
    IF rec.eventName \in {"INSERT", "MODIFY"}
    THEN SetPercentiles(g, rec.dataId, rec.new.percentiles)
    ELSE g

\* What the handler stores for one record.
StreamStore(g, rec) ==
    LET calc == calc_percentiles(measurements_from(rec.new))
    IN  IF /\ rec.eventName \in {"INSERT", "MODIFY"}
           /\ rec.new.babyId # "" /\ rec.new.measurementDate # NoneV
           /\ needs_calc(rec)
           /\ babies.gender \in {"male", "female"} /\ babies.dateOfBirth # NoneV
           /\ ~calc.raised
           /\ calc.percentiles # EmptyMap
        THEN update_item_if_needed(g, rec.dataId, calc.percentiles)
        ELSE g

GrowthStreamHandle ==
    /\ growthStream # << >>
    /\ LET rec == Head(growthStream)
           g == StreamStore(growth, rec)
       IN  /\ growth' = g
           /\ growthStream' = Tail(growthStream) \o GrowthRecords(growth, g, {rec.dataId})
    /\ UNCHANGED << calcVars, babies, nextId, babyStream, redelivered, invocations,
                    recalc, patch, proj >>

(***************************************************************************)
(* The two recomputes of one record, on the same store and baby            *)
(***************************************************************************)

\* The body of the FULL loop for item d when no call raises: the date it
\* computes with (date) and the item it leaves.  Only the record
\* birthDataId names is aligned, and the date is written; nothing is
\* written when no metric was computed.
FullItemResult(g, d, baby) ==
    LET align == d = baby.birthDataId /\ g[d].measurementDate # baby.dateOfBirth
        g1 == IF align THEN SetMeasurementDate(g, d, baby.dateOfBirth) ELSE g
        date == IF align THEN baby.dateOfBirth ELSE g[d].measurementDate
        pct == compute_percentiles(baby.gender, baby.dateOfBirth, date,
                                   g[d].measurements)
    IN  [date |-> date,
         item |-> IF pct # EmptyMap /\ Storable(pct)
                  THEN SetPercentiles(g1, d, pct)[d] ELSE g1[d]]

\* recompute_percentiles_for_growth_data_id for item d: the date it computes
\* with and the item it leaves.
RecalcResult(g, d, baby) ==
    LET date == RecalcDate(g[d], d, baby)
        pct == compute_percentiles(baby.gender, baby.dateOfBirth, date,
                                   g[d].measurements)
    IN  [date |-> date, item |-> RecalcStore(g, d, pct)[d]]

(***************************************************************************)
(* Specification                                                           *)
(***************************************************************************)

\* Requests of the processes procs: those after the first are served
\* without syncRecalc.
Request(procs, bodies, syncs) ==
    \E p \in procs, body \in bodies, sync \in syncs :
        /\ p > 1 => ~sync
        /\ PatchBegin(p, body, sync)

\* The steps of a synchronous recompute; oks: the outcomes of a call of the
\* record store (FALSE: it raises).
SyncSteps(oks) ==
    \E p \in Procs, ok \in oks :
        \/ \E n \in PageSizes : PatchFullQuery(p, n, ok)
        \/ PatchFullAlign(p, ok)
        \/ PatchFullItem(p, ok)
        \/ PatchBirthPct(p, ok)
        \/ PatchBirthOnly(p, ok)
        \/ PatchBirthOnlyFetch(p, ok)
        \/ \E n \in PageSizes : PatchFullRespond(p, n, ok)

\* A synchronous recompute against a record store that answers every call.
Sync == SyncSteps({TRUE})

\* The outcomes of the asynchronous invocations of the current chunk.
Dispatches(kind) ==
    LET ids == SeqRange(Chunk(proj.items, proj.ci))
    IN  CASE kind = "any" -> SUBSET ids
          [] kind = "all" -> {ids}
          [] OTHER -> {{}, ids}

\* dups: whether a record may be delivered twice; oks: the outcomes of a
\* transaction; kind: the outcomes of the invocations.
Projector(dups, pages, oks, kind) ==
    \/ \E dup \in dups : ProjBegin(dup)
    \/ \E n \in pages : ProjCascadeQuery(n)
    \/ \E ok \in oks, dispatched \in Dispatches(kind) :
          ProjCascadeChunk(ok, dispatched)
    \/ \E ok \in oks : ProjBirth(ok)

Recompute ==
    \/ \E d \in invocations : RecalcStart(d)
    \/ \E r \in recalc : RecalcWrite(r)

\* No growth record has used up its write clock.
InStamps == \A d \in DOMAIN growth : growth[d].updatedAt < MaxStamp

\* The GrowthData stream handler reads the tables and (see
\* calc_percentiles) stores nothing, so it commutes with every other step:
\* a pending record is delivered before the next step of another handler.
Deliver == InStamps /\ growthStream # << >>

Ready == InStamps /\ growthStream = << >>

\* One request against the whole backend: transactions and invocations may
\* fail, a Babies stream record may be delivered twice.
Next ==
    \/ Deliver /\ GrowthStreamHandle
    \/ Ready /\ Request({1}, PatchBodies, BOOLEAN)
    \/ Ready /\ Sync
    \/ Ready /\ Projector(BOOLEAN, PageSizes, BOOLEAN, "any")
    \/ Ready /\ Recompute

Spec == Init /\ [][Next]_vars

\* A synchronous request and later requests against the whole backend;
\* every Babies stream record is delivered once.
NextConcurrent ==
    \/ Deliver /\ GrowthStreamHandle
    \/ Ready /\ Request(Procs, PatchBodies, BOOLEAN)
    \/ Ready /\ Sync
    \/ Ready /\ Projector({FALSE}, PageSizes, BOOLEAN, "any")
    \/ Ready /\ Recompute

SpecConcurrent == Init /\ [][NextConcurrent]_vars

\* Requests without syncRecalc and a store that does not fail; a Babies
\* stream record may be delivered twice.
NextRedeliver ==
    \/ Deliver /\ GrowthStreamHandle
    \/ Ready /\ Request(Procs, PatchBodies, {FALSE})
    \/ Ready /\ Projector(BOOLEAN, PageSizes, {TRUE}, "all")
    \/ Ready /\ Recompute

SpecRedeliver == Init /\ [][NextRedeliver]_vars

\* A subject stored as premature, born in gestational week 30.
PrematureBaby(withBirth) ==
    [InitBaby(withBirth) EXCEPT !.premature = TRUE, !.gestationalWeek = 30]

InitPremature ==
    \E withBirth \in BOOLEAN :
        /\ babies = PrematureBaby(withBirth)
        /\ growth = InitGrowth(withBirth)
        /\ nextId = NumManual + (IF withBirth THEN 2 ELSE 1)
        /\ babyStream = << >>
        /\ growthStream = << >>
        /\ redelivered = 0
        /\ invocations = {}
        /\ recalc = {}
        /\ patch = [p \in Procs |-> IdlePatch]
        /\ proj = IdleProj
        /\ CalcIdle

\* Requests on a premature subject: no body sends premature or
\* gestationalWeek.
SpecPremature == InitPremature /\ [][NextRedeliver]_vars

\* growth_data_service.delete_growth_data, DELETE /growth-data/{dataId}: the
\* record is deleted whatever its source; a record that does not exist is
\* answered 404.
delete_growth_data(d) ==
    /\ growth[d].exists
    /\ growth' = [growth EXCEPT ![d] = NoItem]
    /\ growthStream' = growthStream \o GrowthRecords(growth, growth', {d})
    /\ UNCHANGED << calcVars, babies, nextId, babyStream, redelivered,
                    invocations, recalc, patch, proj >>

\* Requests without syncRecalc, the projector and DELETE requests on the
\* growth records.
NextDelete ==
    \/ Deliver /\ GrowthStreamHandle
    \/ Ready /\ Request(Procs, PatchBodies, {FALSE})
    \/ Ready /\ Projector({FALSE}, PageSizes, {TRUE}, "all")
    \/ Ready /\ Recompute
    \/ Ready /\ \E d \in DataIds : delete_growth_data(d)

SpecDelete == Init /\ [][NextDelete]_vars

\* Request bodies that set one birth measurement or the date of birth.
BirthBodies ==
    { Body({"dateOfBirth"}, "n1", "male", 3, NoneV),
      Body({"birthWeight"}, "n1", "male", InitialDob, 3500),
      [Body({"birthHeight"}, "n1", "male", InitialDob, NoneV)
          EXCEPT !.birthHeight = 51],
      [Body({"headCircumference"}, "n1", "male", InitialDob, NoneV)
          EXCEPT !.headCircumference = 36] }

\* Synchronous requests that set a birth measurement or the date of birth,
\* the projector beside them.
NextBirthOnly ==
    \/ Deliver /\ GrowthStreamHandle
    \/ Ready /\ Request({1}, BirthBodies, {TRUE})
    \/ Ready /\ SyncSteps(BOOLEAN)
    \/ Ready /\ Projector({FALSE}, PageSizes, {TRUE}, "all")

SpecBirthOnly == Init /\ [][NextBirthOnly]_vars

\* Request bodies sending every subset of the updatable fields.
ClassifyBodies ==
    {Body(keys, "n2", "female", 3, 3500) : keys \in SUBSET UPDATABLE_FIELDS}

\* One request and its parsing, update and classification.
NextClassify ==
    \/ Ready /\ Request({1}, ClassifyBodies, BOOLEAN)

SpecClassify == Init /\ [][NextClassify]_vars

\* A subject with n manual growth records and no birth data.
InitCascade ==
    \E n \in 0..MaxRecords :
        /\ babies = InitBaby(FALSE)
        /\ growth = [d \in 1..(MaxRecords + 1) |->
                        IF d <= n THEN ManualItem(d) ELSE NoItem]
        /\ nextId = n + 1
        /\ babyStream = << >>
        /\ growthStream = << >>
        /\ redelivered = 0
        /\ invocations = {}
        /\ recalc = {}
        /\ patch = [p \in Procs |-> IdlePatch]
        /\ proj = IdleProj
        /\ CalcIdle

CascadeBodies == {Body({"gender"}, "n1", "female", InitialDob, NoneV)}

\* Index pages that end after the 26th record, or hold every record.
CascadePages == {TxnCeiling + 1, MaxRecords + 1}

\* The invalidation of up to MaxRecords records after a change of gender;
\* the invocations it dispatches are not run.
NextCascade ==
    \/ Deliver /\ GrowthStreamHandle
    \/ Ready /\ Request({1}, CascadeBodies, {FALSE})
    \/ Ready /\ Projector({FALSE}, CascadePages, BOOLEAN, "all-or-none")

SpecCascade == InitCascade /\ [][NextCascade]_vars

\* One request against the whole backend, every Babies stream record
\* delivered once; a step that stays enabled is eventually taken.
NextFair ==
    \/ Deliver /\ GrowthStreamHandle
    \/ Ready /\ Request({1}, PatchBodies, BOOLEAN)
    \/ Ready /\ Sync
    \/ Ready /\ Projector({FALSE}, PageSizes, BOOLEAN, "any")
    \/ Ready /\ Recompute

SpecFair == Init /\ [][NextFair]_vars /\ WF_vars(NextFair)

\* One synchronous request against a record store whose calls may raise
\* while the request is served; the projector and the recomputes it
\* invokes run beside it, every Babies stream record delivered once.
NextSync ==
    \/ Deliver /\ GrowthStreamHandle
    \/ Ready /\ Request({1}, PatchBodies, {TRUE})
    \/ Ready /\ SyncSteps(BOOLEAN)
    \/ Ready /\ Projector({FALSE}, PageSizes, {TRUE}, "all")
    \/ Ready /\ Recompute

SpecSync == Init /\ [][NextSync]_vars

\* Request bodies that set or null the date of birth and the birth weight.
ProjectorBodies ==
    {Body(keys, "n1", "male", dob, weight) :
        keys \in {{"dateOfBirth"}, {"birthWeight"}, {"dateOfBirth", "birthWeight"}},
        dob \in {NoneV, 3}, weight \in {NoneV, 0, 3500}}

\* The projector on the images such requests produce; the invocations it
\* dispatches are not run.
NextProjector ==
    \/ Deliver /\ GrowthStreamHandle
    \/ Ready /\ Request(Procs, ProjectorBodies, {FALSE})
    \/ Ready /\ Projector({FALSE}, PageSizes, {TRUE}, "all")

SpecProjector == Init /\ [][NextProjector]_vars

\* The calculator alone, called any number of times by one warm container
\* packaged with the reference tables.
NextCalc ==
    \/ CalcSingle
    \/ CalcMulti

SpecCalc == Init /\ [][NextCalc]_vars

\* The same calls when the packaged tables may hold degenerate rows.
InitCalcTables ==
    /\ babies = InitBaby(FALSE)
    /\ growth = InitGrowth(FALSE)
    /\ nextId = NumManual + 1
    /\ babyStream = << >>
    /\ growthStream = << >>
    /\ redelivered = 0
    /\ invocations = {}
    /\ recalc = {}
    /\ patch = [p \in Procs |-> IdlePatch]
    /\ proj = IdleProj
    /\ tables \in CalcTables
    /\ INDEX_BY_DAY_CACHE = NoCache
    /\ calcCall = NoCall

SpecCalcTables == InitCalcTables /\ [][NextCalc]_vars

(***************************************************************************)
(* Properties                                                              *)
(***************************************************************************)

\* Record d belongs to the subject and carries a non-empty percentile cache.
HasCache(d) ==
    /\ growth[d].exists /\ growth[d].babyId = BabyId
    /\ growth[d].hasPct /\ growth[d].percentiles # EmptyMap

\* What the calculator returns for record d against the current subject.
FreshPercentiles(d) ==
    compute_percentiles(babies.gender, babies.dateOfBirth,
                        growth[d].measurementDate, growth[d].measurements)

Stale(d) == HasCache(d) /\ growth[d].percentiles # FreshPercentiles(d)

\* Every request is answered, every change record delivered and handled,
\* every invocation run.
Quiescent ==
    /\ \A p \in Procs : patch[p].pc \in {"idle", "done"}
    /\ proj.pc = "idle"
    /\ babyStream = << >> /\ growthStream = << >>
    /\ invocations = {} /\ recalc = {}

\* C1: in every reachable state a growth record with a non-empty
\* percentile cache has the cache the calculator returns for its current
\* measurements and date against the subject's current sex and date of
\* birth.
C1_CacheAlwaysFresh == \A d \in DOMAIN growth : ~Stale(d)

\* C2: once every request is answered and every change record and
\* invocation is handled, each cache is absent or is the value computed
\* from the final subject state.
C2_ConvergedFresh == Quiescent => \A d \in DOMAIN growth : ~Stale(d)

\* The birth-sourced growth records of the subject.
BirthRecords ==
    {d \in DOMAIN growth : /\ growth[d].exists /\ growth[d].babyId = BabyId
                           /\ growth[d].measurementSource = "birth"}

\* C3: in every reachable state the subject has at most one birth-sourced
\* growth record, and that record is the one birthDataId references.
C3_OneBirthRecord ==
    /\ Cardinality(BirthRecords) <= 1
    /\ \A d \in BirthRecords : babies.birthDataId = d

\* C4: the second delivery of a birth-upsert record leaves the set of
\* growth records and the pointer as the first delivery left them, with
\* exactly one birth record, the one of the pointer.
C4_ReplayIdempotent ==
    [][(proj.again /\ BirthAction(proj.new) = "upsert" /\ ProjBirth(TRUE))
        => /\ Members(growth') = Members(growth)
           /\ babies'.birthDataId = babies.birthDataId
           /\ {d \in Members(growth') : growth'[d].measurementSource = "birth"}
                 = {babies'.birthDataId}]_vars

\* C5: the mode of a synchronous PATCH is determined by the changed-field
\* set: full when it holds gender or dateOfBirth, birth-only when it holds
\* none of them but a birth measurement, none otherwise.
C5_ClassifyTotal ==
    \A p \in Procs :
        (patch[p].pc # "idle" /\ patch[p].sync /\ patch[p].status # 400) =>
            LET keys == patch[p].keys
                structural == "gender" \in keys \/ "dateOfBirth" \in keys
                birth == \/ "birthWeight" \in keys
                         \/ "birthHeight" \in keys
                         \/ "headCircumference" \in keys
            IN  /\ structural => patch[p].mode = "full"
                /\ (~structural /\ birth) => patch[p].mode = "birth-only"
                /\ (~structural /\ ~birth) => patch[p].mode = "none"

\* A synchronous request that changes gender and birthWeight runs in full mode.
C5_FullWithBirthFields ==
    \E p \in Procs :
        /\ patch[p].sync /\ patch[p].mode = "full"
        /\ {"gender", "birthWeight"} \subseteq patch[p].keys

\* The dataId the birth transaction of the running call addresses.
ProjBirthId ==
    IF proj.new.birthDataId = NoId THEN nextId ELSE proj.new.birthDataId

\* C6: the upsert writes the birth record and sets the pointer if absent,
\* or changes neither table; the delete removes the record and clears the
\* pointer, or changes neither table.
C6_TxnAllOrNothing ==
    [][(\E ok \in BOOLEAN : ProjBirth(ok)) =>
        LET act == BirthAction(proj.new)
            d == ProjBirthId
            neither == growth' = growth /\ babies' = babies
        IN  CASE act = "upsert" ->
                    \/ neither
                    \/ /\ growth'[d].exists
                       /\ growth'[d].measurementSource = "birth"
                       /\ growth'[d].measurements = extract_birth_measurements(proj.new)
                       /\ \A e \in DOMAIN growth \ {d} : growth'[e] = growth[e]
                       /\ babies' = [babies EXCEPT !.birthDataId =
                                        IF @ = NoId THEN d ELSE @]
              [] act = "delete" ->
                    \/ neither
                    \/ /\ ~growth'[d].exists
                       /\ \A e \in DOMAIN growth \ {d} : growth'[e] = growth[e]
                       /\ babies' = [babies EXCEPT !.birthDataId = NoId]
              [] OTHER -> neither]_vars

\* An upsert transaction failed: the record of a request that set
\* birthWeight is consumed, and there is neither a birth record nor a pointer.
C6_FailedUpsert ==
    /\ babies.birthWeight # NoneV /\ babies.birthDataId = NoId
    /\ BirthRecords = {}
    /\ babyStream = << >> /\ proj.pc = "idle"
    /\ \E p \in Procs : patch[p].pc = "done"

\* C7: when the images of a record differ in gender or dateOfBirth and no
\* transaction fails, every growth record the subject had when the record
\* was delivered is in a committed REMOVE percentiles transaction before
\* the invalidation ends, and each such transaction leaves its records
\* without percentiles.
C7_CascadeClearsAll ==
    /\ []((proj.pc = "birth" /\ proj.cascade /\ ~proj.failed)
            => proj.members \subseteq proj.cleared)
    /\ [][\A d \in proj'.cleared \ proj.cleared : ~growth'[d].hasPct]_vars

\* An invalidation that covered two records over two index pages.
C7_TwoPagesCleared ==
    /\ proj.pc = "birth" /\ proj.cascade /\ ~proj.failed
    /\ proj.pages >= 2 /\ Cardinality(proj.members) >= 2

\* ceil(n / 25)
CeilTxn(n) == (n + TxnCeiling - 1) \div TxnCeiling

\* The invalidation of the running call ended without a failed transaction.
CascadeDone == proj.pc = "birth" /\ proj.cascade /\ ~proj.failed

C9_NoWriteWhenEqual ==
    [][/\ \A r \in recalc :
            (/\ RecalcWrite(r)
             /\ growth[r.dataId].exists /\ growth[r.dataId].hasPct
             /\ growth[r.dataId].percentiles = r.pct)
            => growth'[r.dataId] = growth[r.dataId]
       /\ (/\ GrowthStreamHandle
           /\ LET rec == Head(growthStream)
              IN  /\ growth[rec.dataId].exists /\ growth[rec.dataId].hasPct
                  /\ growth[rec.dataId].percentiles
                        = calc_percentiles(measurements_from(rec.new)).percentiles)
          => growth' = growth]_vars

\* C10: after one request, the chain of change records and handler runs it
\* causes comes to rest: from some point on nothing is pending.
C10_ChainSettles == <>[](Quiescent /\ patch[1].pc = "done")

\* At rest after a chain through both streams: the request set a birth
\* measurement, the projector put the birth record for the request's
\* record and again for the record of the pointer update.
C10_SettledAfterChain ==
    /\ Quiescent /\ patch[1].pc = "done"
    /\ \E d \in BirthRecords : d = babies.birthDataId /\ growth[d].updatedAt >= 2

\* Record d has just lost its percentiles to the invalidation of the running
\* projector call, the subject has a sex and a date of birth, and the record
\* has a positive measurement taken on or after the date of birth.
Invalidated(d) ==
    /\ d \in proj.cleared
    /\ growth[d].exists /\ ~growth[d].hasPct
    /\ babies.gender \in {"male", "female"} /\ babies.dateOfBirth # NoneV
    /\ has_any_value(growth[d].measurements)
    /\ growth[d].measurementDate >= babies.dateOfBirth

\* C11: a growth record whose percentiles the invalidation removed
\* eventually has percentiles again, whether or not the invocation for the
\* record was dispatched.
C11_InvalidatedRecomputed ==
    \A d \in DataIds : Invalidated(d) ~> growth[d].hasPct

\* C12: the query of a synchronous FULL recompute returns every growth
\* record of the subject: totalItems is the number of the subject's records
\* in the store at the query, on however many index pages they lie.
C12_FullConsidersAll ==
    [][\A p \in Procs :
          (patch[p].pc = "full_query" /\ patch'[p].pc \in {"full_item", "birth_pct"})
          => /\ patch'[p].total = Cardinality(Members(growth))
             /\ {patch'[p].items[n].dataId : n \in 1..Len(patch'[p].items)}
                   = Members(growth)]_vars

\* The dataIds of the items the FULL query of request p returned.
Considered(p) == {patch[p].items[n].dataId : n \in 1..Len(patch[p].items)}

C14_HonestCount ==
    /\ [](\A p \in Procs :
            /\ patch[p].updated_count = Cardinality(patch[p].persisted)
            /\ 0 <= patch[p].updated_count
            /\ patch[p].updated_count <= patch[p].total
            /\ patch[p].persisted \cap (patch[p].failed \cup patch[p].skipped) = {})
    /\ [][\A p \in Procs :
            (patch[p].pc = "full_item" /\ patch'[p].i # patch[p].i) =>
               LET d == patch[p].items[patch[p].i].dataId
               IN  IF growth'[d] # growth[d]
                   THEN /\ patch'[p].updated_count = patch[p].updated_count + 1
                        /\ growth'[d].hasPct
                   ELSE patch'[p].updated_count = patch[p].updated_count]_vars

\* A FULL response over two items, one stored and the other not.
C14_CountBelowTotal ==
    \E p \in Procs :
        /\ patch[p].pc = "done" /\ patch[p].status = 200 /\ patch[p].mode = "full"
        /\ patch[p].total = 2 /\ patch[p].updated_count = 1

\* Request p is about to compute the percentiles of the canonical birth
\* record (the item whose dataId is the baby's birthDataId).
ComputesBirthRecord(p) ==
    /\ patch[p].pc = "full_item" /\ patch'[p].i # patch[p].i
    /\ patch[p].items[patch[p].i].dataId = patch[p].baby.birthDataId

C16_RetryOnDateBeforeBirth ==
    [][\A p \in Procs :
          (/\ patch[p].pc = "full_item" /\ patch'[p].i # patch[p].i
           /\ ~patch[p].aligned
           /\ patch[p].items[patch[p].i].measurementDate < patch[p].baby.dateOfBirth)
          => /\ patch'[p].fetches = patch[p].fetches + 1
             /\ patch'[p].pc \in {"full_item", "birth_pct"}]_vars

\* C17: a synchronous request whose write of the birth percentiles onto the
\* subject raised, in the FULL or in the BIRTH ONLY path, is answered with
\* an error.
C17_BirthPersistFailureSurfaces ==
    \A p \in Procs :
        (patch[p].pc = "done" /\ patch[p].bp_failed) => patch[p].status = 500

\* Request p is answered by this step.
Answers(p) == patch[p].pc # "done" /\ patch'[p].pc = "done"

BirthFieldsOnly(p) ==
    /\ patch[p].sync
    /\ patch[p].keys \cap structural_fields = {}
    /\ patch[p].keys \cap birth_measure_fields # {}

C21_SkipWithoutBirthData ==
    [][\A p \in Procs :
          (/\ patch[p].pc = "birth_only" /\ patch'[p] # patch[p]
           /\ extract_birth_measurements(patch[p].baby) = EmptyMap)
          => /\ Answers(p)
             /\ patch'[p].status = 200 /\ patch'[p].mode = "birth-only"
             /\ patch'[p].resp = SkippedResponse
             /\ patch'[p].persisted = {}
             /\ babies' = babies /\ growth' = growth]_vars

\* A request that removed the last birth measurement was answered as
\* skipped in birth-only mode.
C21_SkippedAnswered ==
    \E p \in Procs :
        /\ patch[p].pc = "done" /\ patch[p].mode = "birth-only"
        /\ patch[p].status = 200 /\ patch[p].resp.recalcSkipped
        /\ "birthWeight" \in patch[p].keys /\ babies.birthWeight = NoneV

\* C22: a synchronous request whose changed fields hold neither gender or
\* dateOfBirth nor a birth measurement is answered 200 in mode none with
\* recalcSkipped, and leaves every growth record and the subject's birth
\* percentiles as they were.
C22_NoneLeavesPercentiles ==
    [][\A p \in Procs :
          (/\ patch[p].pc = "idle" /\ patch'[p].pc # "idle"
           /\ patch'[p].sync /\ patch'[p].status # 400
           /\ patch'[p].keys \cap (structural_fields \cup birth_measure_fields) = {})
          => /\ patch'[p].pc = "done" /\ patch'[p].status = 200
             /\ patch'[p].mode = "none"
             /\ patch'[p].resp = SkippedResponse
             /\ growth' = growth
             /\ babies'.hasBP = babies.hasBP
             /\ babies'.birthPercentiles = babies.birthPercentiles]_vars

\* A synchronous request that changed the name was answered as skipped in
\* mode none while a growth record holds percentiles.
C22_NameOnlySkipped ==
    \E p \in Procs :
        /\ patch[p].pc = "done" /\ patch[p].sync /\ patch[p].mode = "none"
        /\ patch[p].resp.recalcSkipped
        /\ "name" \in patch[p].keys /\ babies.name = "n2"
        /\ \E d \in DOMAIN growth : HasCache(d)

\* The inputs of the last direct call are valid apart from its dates: a known
\* measurement type, a sex and positive values.
CalcInputsValid ==
    /\ calcCall.sex \in {"male", "female"}
    /\ \/ /\ calcCall.op = "single"
          /\ calcCall.measurement_type \in NUMERIC_KEYS
          /\ calcCall.value > 0
       \/ /\ calcCall.op = "multi"
          /\ \A k \in DOMAIN calcCall.measurements :
                 calcCall.measurements[k] > 0

\* C23: for a measurement date strictly earlier than the date of birth, both
\* compute_percentile and compute_percentiles fail with the error
\* "Measurement date cannot be before birth date"; neither returns a number
\* or a result map.
C23_DateBeforeBirthFails ==
    (CalcInputsValid /\ calcCall.measurement_date < calcCall.birth_date)
        => /\ ~calcCall.ok
           /\ calcCall.err = "Measurement date cannot be before birth date"

\* The row the last single call selected is degenerate.
DegenerateRow(measurement_type) == tables[measurement_type] # "who"

\* C24: with a degenerate reference row (S = 0 or M <= 0) or a value <= 0
\* the single computation fails with an explicit error and returns neither a
\* NaN percentile nor a NaN z-score, and the multi-metric form leaves that
\* metric out of its result while returning the other metrics.
C24_DegenerateRowFails ==
    /\ (/\ calcCall.op = "single"
        /\ calcCall.measurement_type \in NUMERIC_KEYS
        /\ calcCall.sex \in {"male", "female"}
        /\ calcCall.measurement_date >= calcCall.birth_date
        /\ (calcCall.value <= 0 \/ DegenerateRow(calcCall.measurement_type)))
           => (~calcCall.ok /\ calcCall.percentile # NaN /\ calcCall.zscore # NaN)
    /\ (/\ calcCall.op = "multi"
        /\ calcCall.sex \in {"male", "female"}
        /\ calcCall.measurement_date >= calcCall.birth_date)
           => /\ calcCall.ok
              /\ \A k \in DOMAIN calcCall.measurements :
                     IF calcCall.measurements[k] <= 0 \/ DegenerateRow(k)
                     THEN k \notin DOMAIN calcCall.result
                     ELSE k \in DOMAIN calcCall.result

\* Two consecutive direct calls of compute_percentile take the same inputs.
SameInputs ==
    /\ calcCall.op = "single"
    /\ calcCall'.measurement_type = calcCall.measurement_type
    /\ calcCall'.sex = calcCall.sex
    /\ calcCall'.value = calcCall.value
    /\ calcCall'.birth_date = calcCall.birth_date
    /\ calcCall'.measurement_date = calcCall.measurement_date

C26_RecomputeFrame ==
    [][\A r \in recalc :
          r \notin recalc'
              => /\ babies' = babies
                 /\ \A d \in DOMAIN growth :
                        IF d = r.dataId
                        THEN /\ growth'[d].measurements = growth[d].measurements
                             /\ growth'[d].measurementDate = growth[d].measurementDate
                             /\ growth'[d].babyId = growth[d].babyId
                             /\ growth'[d].measurementSource
                                    = growth[d].measurementSource
                        ELSE growth'[d] = growth[d]]_vars

\* The birth record carries percentiles computed at the new date of birth
\* while its stored measurement date is still the old one.
C26_AlignedInMemoryOnly ==
    \E d \in DOMAIN growth :
        /\ growth[d].exists /\ growth[d].measurementSource = "birth"
        /\ growth[d].measurementDate < babies.dateOfBirth
        /\ growth[d].hasPct /\ growth[d].percentiles # EmptyMap
        /\ growth[d].percentiles
               = compute_percentiles(babies.gender, babies.dateOfBirth,
                                     babies.dateOfBirth, growth[d].measurements)


\* The record at the head of the GrowthData stream is one the handler has to
\* compute: INSERT, or MODIFY with changed measurements or without
\* percentiles, of a stored record with a positive measurement dated on or
\* after the date of birth of a baby with sex and date of birth.
MustCompute(rec) ==
    /\ rec.eventName \in {"INSERT", "MODIFY"}
    /\ rec.new.babyId # "" /\ rec.new.measurementDate # NoneV
    /\ needs_calc(rec)
    /\ babies.gender \in {"male", "female"} /\ babies.dateOfBirth # NoneV
    /\ rec.new.measurementDate >= babies.dateOfBirth
    /\ \E k \in DOMAIN rec.new.measurements : rec.new.measurements[k] > 0
    /\ growth[rec.dataId].exists

\* C27: the GrowthData stream handler computes and stores the percentiles of
\* the record on every INSERT and on every MODIFY whose measurements changed
\* or whose percentiles are missing, given a baby with sex and date of birth
\* and a positive measurement: after it has handled such a record the record
\* carries percentiles.
C27_StreamHandlerStores ==
    [][(/\ growthStream # << >>
        /\ growthStream' # growthStream
        /\ MustCompute(Head(growthStream)))
           => /\ growth'[Head(growthStream).dataId].hasPct
              /\ growth'[Head(growthStream).dataId].percentiles # EmptyMap]_vars


\* C28: no transaction of the invalidation holds more than 25 operations,
\* whatever the number of growth records and the size of the index page: the
\* slice sent has at most 25 items and the step changes at most 25 records.
C28_TxnAtMost25 ==
    [][(proj.pc = "cascade_chunk" /\ proj' # proj)
        => /\ Len(Chunk(proj.items, proj.ci)) <= TxnCeiling
           /\ Cardinality({d \in DOMAIN growth : growth'[d] # growth[d]})
                  <= TxnCeiling]_vars

\* A page of more than 25 records whose first 25 records were cleared by one
\* committed transaction, the rest waiting for the next one.
C28_FullChunkCommitted ==
    /\ proj.pc = "cascade_chunk" /\ proj.ci = TxnCeiling
    /\ Len(proj.items) > TxnCeiling
    /\ Cardinality(proj.cleared) = TxnCeiling
    /\ \A d \in proj.cleared : ~growth[d].hasPct

\* C29: a recompute of a growth record is dispatched only in the step that
\* committed the transaction removing that record's percentiles, and once a
\* transaction of the invalidation has failed nothing is dispatched, neither
\* for its records nor for those of a later slice or page.
C29_DispatchAfterCommit ==
    [][/\ \A d \in invocations' \ invocations :
             /\ proj.pc = "cascade_chunk"
             /\ proj'.txns = proj.txns + 1
             /\ d \in SeqRange(Chunk(proj.items, proj.ci))
             /\ d \in proj'.cleared
             /\ ~growth'[d].hasPct
             /\ ~proj'.failed
       /\ (proj'.failed /\ proj'.cascade)
             => /\ invocations' \subseteq invocations
                /\ proj'.pc # "cascade_chunk" /\ proj'.pc # "cascade_query"]_vars

\* A transaction failed after an earlier one had committed: recomputes are
\* pending for the committed records only, and records are left uncleared.
C29_FailedAfterCommitted ==
    /\ proj.failed /\ proj.cascade
    /\ proj.cleared # {} /\ proj.members \ proj.cleared # {}
    /\ invocations # {} /\ invocations \subseteq proj.cleared

\* C30: a birthDataId that is set is not changed by an upsert of the
\* projector; it changes only by being removed by the delete transaction,
\* which is issued only for an after-image without a positive birth
\* measurement.
C30_PointerStable ==
    [][(babies.birthDataId # NoId /\ babies'.birthDataId # babies.birthDataId)
        => /\ babies'.birthDataId = NoId
           /\ proj.pc = "birth"
           /\ BirthAction(proj.new) = "delete"
           /\ ~has_any_value(extract_birth_measurements(proj.new))]_vars

\* An upsert put a second birth item while the pointer was set: the pointer
\* still names the first one.
C30_SecondUpsertKeptPointer ==
    /\ babies.birthDataId # NoId
    /\ growth[babies.birthDataId].exists
    /\ \E d \in DOMAIN growth :
          /\ d # babies.birthDataId
          /\ growth[d].exists /\ growth[d].measurementSource = "birth"


\* C31: for an after-image the projector upserts the birth record exactly
\* when the image has a date of birth and a positive birth measurement,
\* deletes the birth record and removes the pointer exactly when no birth
\* measurement is positive and the image carries a birthDataId, with or
\* without a date of birth, and otherwise writes nothing.
C31_ProjectorDecision ==
    [][(proj.pc = "birth" /\ proj'.pc = "idle")
        => LET new == proj.new
               positive == has_any_value(extract_birth_measurements(new))
           IN  IF new.dateOfBirth # NoneV /\ positive
               THEN \E d \in DOMAIN growth :
                       /\ growth'[d].exists
                       /\ growth'[d].measurementSource = "birth"
                       /\ growth'[d].measurementDate = new.dateOfBirth
                       /\ growth'[d].measurements = extract_birth_measurements(new)
                       /\ growth'[d].updatedAt > growth[d].updatedAt
               ELSE IF ~positive /\ new.birthDataId # NoId
               THEN /\ babies'.birthDataId = NoId
                    /\ ~growth'[new.birthDataId].exists
               ELSE growth' = growth /\ babies' = babies]_vars


\* Every record of the Babies stream has been delivered and handled.
EventsProcessed == babyStream = << >> /\ proj.pc = "idle"

\* C32: once every change record of the baby has been handled, second
\* deliveries included, the birth record birthDataId references exists with
\* the baby's current date of birth (when it has one) as measurement date
\* and the baby's current birth measurements, and a baby with a date of
\* birth and a positive birth measurement has such a record.
C32_BirthRecordInSync ==
    EventsProcessed
        => /\ (/\ has_any_value(extract_birth_measurements(babies))
               /\ babies.dateOfBirth # NoneV)
                 => babies.birthDataId # NoId
           /\ babies.birthDataId # NoId
                 => /\ growth[babies.birthDataId].exists
                    /\ babies.dateOfBirth # NoneV
                          => growth[babies.birthDataId].measurementDate
                                = babies.dateOfBirth
                    /\ growth[babies.birthDataId].measurements
                           = extract_birth_measurements(babies)


\* C33: every committed upsert of the projector leaves the birth record it
\* put without percentiles: the item replaces the stored one and has no
\* percentiles attribute, whatever the stored item carried.
C33_UpsertDropsPercentiles ==
    [][(/\ proj.pc = "birth" /\ proj'.pc = "idle"
        /\ BirthAction(proj.new) = "upsert")
        => \A d \in DOMAIN growth :
              growth'[d] # growth[d]
                 => /\ growth'[d].measurementSource = "birth"
                    /\ ~growth'[d].hasPct
                    /\ growth'[d].percentiles = EmptyMap]_vars

\* The birth record the pointer references was written at least three
\* times, last by an upsert with the new weight, and has no percentiles.
C33_RewrittenWithoutPercentiles ==
    /\ babies.birthDataId # NoId /\ proj.pc = "idle"
    /\ growth[babies.birthDataId].exists
    /\ growth[babies.birthDataId].updatedAt >= 3
    /\ growth[babies.birthDataId].measurements = [k \in {"weight"} |-> 3500]
    /\ ~growth[babies.birthDataId].hasPct

\* C34: a step of the synchronous BIRTH ONLY path writes nothing but the
\* baby's birthPercentiles: no growth record is created, changed or deleted,
\* no other attribute of the baby changes; the record it synthesises for
\* the response is marked synthetic and is not put in the store.
C34_BirthOnlyFrame ==
    [][\A p \in Procs :
          (/\ patch[p].pc \in {"birth_only", "birth_only_fetch"}
           /\ patch'[p] # patch[p])
          => /\ growth' = growth
             /\ nextId' = nextId
             /\ [babies' EXCEPT !.hasBP = babies.hasBP,
                                !.birthPercentiles = babies.birthPercentiles]
                   = babies
             /\ growthStream' = growthStream]_vars

\* A BIRTH ONLY request answered with a synthetic record: the birth
\* percentiles are on the baby and the store holds no birth record.
C34_SyntheticNotStored ==
    \E p \in Procs :
        /\ patch[p].pc = "done" /\ patch[p].mode = "birth-only"
        /\ patch[p].status = 200 /\ patch[p].resp.synthetic
        /\ babies.hasBP /\ babies.birthPercentiles # EmptyMap
        /\ BirthRecords = {}

\* C35: once a synchronous FULL recompute has answered, no growth record
\* carries percentiles computed against the previous sex or date of birth;
\* in particular a record the loop skipped, because no metric could be
\* computed for it, does not keep the cache it had.
C35_SkippedCacheDropped ==
    \A p \in Procs :
        (/\ patch[p].pc = "done" /\ patch[p].sync
         /\ patch[p].mode = "full" /\ patch[p].status = 200)
        => \A d \in patch[p].skipped : ~Stale(d)

\* C36: for the same growth record and the same baby the FULL loop and the
\* internal recompute compute with the same measurement date and leave the
\* same percentiles on the record, also for a birth-sourced record
\* birthDataId does not name and for a record without computable metric.
C36_SameRecompute ==
    \A d \in Members(growth) :
        LET full == FullItemResult(growth, d, babies)
            async == RecalcResult(growth, d, babies)
        IN  /\ full.date = async.date
            /\ full.item.hasPct = async.item.hasPct
            /\ full.item.percentiles = async.item.percentiles

\* C37: a PATCH changes only the fields its body sends: every updatable
\* field absent from the body, premature and gestationalWeek among them,
\* keeps its stored value.  No request of SpecPremature sends premature or
\* gestationalWeek, so the fields sent are the updated ones without the two
\* that normalize_baby_data adds.
C37_AbsentFieldsKept ==
    [][\A p \in Procs :
          (patch[p].pc = "idle" /\ patch'[p].pc # "idle" /\ patch'[p].status # 400)
          => \A k \in UPDATABLE_FIELDS \
                     (patch'[p].keys \ {"premature", "gestationalWeek"}) :
                babies'[k] = babies[k]]_vars

\* C38: the birth-record pointer of the subject, when set, names a growth
\* record that exists in the store and belongs to the subject.
C38_PointerNotDangling ==
    babies.birthDataId # NoId
    => /\ growth[babies.birthDataId].exists
       /\ growth[babies.birthDataId].babyId = BabyId

\* C39: the synthetic birth record a BIRTH ONLY response returns carries,
\* for weight, height and head circumference, the birth measurement of the
\* baby the response returns, and percentiles for exactly the birth
\* measurements a percentile was computed for.
C39_SyntheticMatchesBaby ==
    [][\A p \in Procs :
          (/\ patch[p].pc = "birth_only_fetch"
           /\ patch'[p].pc = "done" /\ patch'[p].resp.synthetic)
          => LET baby == patch[p].baby
                 rec == SyntheticBirthMeasurement(baby)
             IN  /\ rec.measurements["weight"] = baby.birthWeight
                 /\ rec.measurements["height"] = baby.birthHeight
                 /\ rec.measurements["headCircumference"] = baby.headCircumference
                 /\ DOMAIN rec.percentiles
                      = DOMAIN compute_birth_percentiles(baby)]_vars
====
